---- MODULE Spec2Model ----
(***************************************************************************)
(* bloqade-python: the builder-chain Parser (builder/parse/builder.py).   *)
(* A builder chain is the linearised ancestry of fluent builder calls;    *)
(* the Parser walks it with stream cursors and lowers it to the IR        *)
(* (register, Sequence -> Pulse -> Field -> Waveform) and the execution   *)
(* parameters.                                                             *)
(***************************************************************************)
EXTENDS Integers, Sequences, FiniteSets, TLC

VARIABLES
    chain,              \* the nodes BuilderStream.create(builder) linearised
    op,                 \* the entry point of the current (or last) call
    pc,                 \* position inside the entry point
    stream,             \* self.stream: cursor into chain (0: no stream yet)
    scan,               \* the local stream copy / curr of the running pass
    vector_node_names,  \* self.vector_node_names
    sequence,           \* self.sequence
    register,           \* self.register
    batch_params,       \* self.batch_params
    static_params,      \* self.static_params
    order,              \* self.order
    coupling_name,      \* self.coupling_name (Unset: the attribute is absent)
    field_name,         \* self.field_name    (Unset: the attribute is absent)
    outcome,            \* what the last finished call returned or raised
    prev,               \* outcome of the call before, when it was the same call
    n_scans,            \* read_address calls made by the current call
    drives,             \* the drives the current call merged, in order
    other,              \* outcome of the call before, when it was another
                        \* entry point on the same chain
    ast,                \* the argument of the running (or last) emit
    assignments,        \* self.assignments of the analysis
    walk,               \* position of IsConstantAnalogCircuit in its traversal
    visitor,            \* the attributes of the IsConstantAnalogCircuit object
    result,             \* what the last emit returned
    task_id,            \* BraketTask.task_id (NoId: None)
    task_result_ir,     \* BraketTask.task_result_ir
    remote,             \* the tasks the backend holds: remote[id] is the
                        \* state of the task submit_task returned id for
    tpc,                \* position inside the running BraketTask method
    call,               \* the running (or last) BraketTask call: its name,
                        \* the task before it, the backend calls it made
    submit_task_calls,  \* invocations of backend.submit_task so far
    forced,             \* a submit(force=True) has been made
    n_calls             \* BraketTask methods called so far

parserVars == <<chain, op, pc, stream, scan, vector_node_names, sequence,
                register, batch_params, static_params, order, coupling_name,
                field_name, outcome, prev, n_scans, drives, other>>

analysisVars == <<ast, assignments, walk, visitor, result>>

taskVars == <<task_id, task_result_ir, remote, tpc, call, submit_task_calls,
              forced, n_calls>>

vars == <<parserVars, analysisVars, taskVars>>

(***************************************************************************)
(* Bounds of the model.                                                    *)
(***************************************************************************)
MaxDrives == 2      \* drives (spatial modulation + waveform) per chain
MaxPrims == 2       \* consecutive waveform primitives in one drive
MaxArgs == 4        \* names in one Args pragma

(***************************************************************************)
(* Partial maps (Python dicts) as functions.                               *)
(***************************************************************************)
EmptyMap == <<>>

Get(m, k, default) ==
    IF k \in DOMAIN m THEN m[k] ELSE default

Put(m, k, v) ==
    [x \in (DOMAIN m) \cup {k} |-> IF x = k THEN v ELSE m[x]]

(***************************************************************************)
(* Builder nodes.                                                          *)
(***************************************************************************)
FieldKinds == {"Detuning", "RabiAmplitude", "RabiPhase"}

CouplingKinds == {"Rydberg", "Hyperfine"}

SpatialKinds == {"Location", "Uniform", "Scale"}

PrimitiveKinds == {"Linear", "Constant", "Fn"}

PragmaKinds == {"Assign", "BatchAssign", "ListAssign", "Args", "Parallelize"}

Unset == "unset"

(***************************************************************************)
(* IR values the nodes lower to (__bloqade_ir__).                          *)
(***************************************************************************)
NoneWf == [wf |-> "None"]

NoneReg == [kind |-> "None"]

\* Coupling.__bloqade_ir__: ir.rydberg / ir.hyperfine
CouplingIR(node) ==
    IF node.kind = "Rydberg" THEN "rydberg" ELSE "hyperfine"

\* Field.__bloqade_ir__: ir.detuning / ir.rabi.amplitude / ir.rabi.phase
FieldIR(node) ==
    CASE node.kind = "Detuning" -> "detuning"
      [] node.kind = "RabiAmplitude" -> "rabi.amplitude"
      [] OTHER -> "rabi.phase"

\* SpatialModulation.__bloqade_ir__: the key of the drive in its Field
SpatialIR(node) ==
    CASE node.kind = "Uniform" -> [sm |-> "UniformModulation"]
      [] node.kind = "Location" -> [sm |-> "ScaledLocations", label |-> node.label]
      [] OTHER -> [sm |-> "RunTimeVector", name |-> node.name]

\* WaveformPrimitive.__bloqade_ir__: a waveform leaf
PrimitiveIR(node) ==
    [wf |-> IF node.kind = "Fn" THEN "PythonFn" ELSE node.kind, id |-> node.id]

\* Waveform.append: sequential concatenation, a flat Append list
AppendWf(w, x) ==
    IF w.wf = "Append"
    THEN [wf |-> "Append", waveforms |-> Append(w.waveforms, x)]
    ELSE [wf |-> "Append", waveforms |-> <<w, x>>]

\* Waveform.__getitem__ with a slice
SliceWf(w, start, stop) ==
    [wf |-> "Slice", waveform |-> w, start |-> start, stop |-> stop]

\* Waveform.record
RecordWf(w, name) ==
    [wf |-> "Record", waveform |-> w, name |-> name]

\* ir.Sample(fn_waveform, interpolation, dt)
SampleWf(w, interpolation, dt) ==
    [wf |-> "Sample", waveform |-> w, interpolation |-> interpolation, dt |-> dt]

\* Waveform.__add__
AddWf(l, r) ==
    [wf |-> "Add", left |-> l, right |-> r]

\* ir.ParallelRegister(register, cluster_spacing)
ParallelRegister(r, spacing) ==
    [kind |-> "ParallelRegister", register |-> r, cluster_spacing |-> spacing]

(***************************************************************************)
(* The builder chains parsed: the fluent calls of the builder API, and    *)
(* every place of a chain where a parse can be asked for.                  *)
(***************************************************************************)
N(k) == [kind |-> k]

RegisterNode == [kind |-> "AtomArrangement", id |-> "R"]

Location(label) == [kind |-> "Location", label |-> label]

Scale(name) == [kind |-> "Scale", name |-> name]

Primitive(k, id) == [kind |-> k, id |-> id]

Slice(start, stop) == [kind |-> "Slice", start |-> start, stop |-> stop]

Record(name) == [kind |-> "Record", name |-> name]

Sample(interpolation, dt) ==
    [kind |-> "Sample", interpolation |-> interpolation, dt |-> dt]

Assign(params) == [kind |-> "Assign", static_params |-> params]

BatchAssign(batch) == [kind |-> "BatchAssign", batch_params |-> batch]

ListAssign(batch) == [kind |-> "ListAssign", batch_params |-> batch]

Args(names) == [kind |-> "Args", order |-> names]

Parallelize(spacing) == [kind |-> "Parallelize", cluster_spacing |-> spacing]

SequenceBuilder(s) == [kind |-> "SequenceBuilder", sequence |-> s]

LinA == Primitive("Linear", "A")

LinB == Primitive("Linear", "B")

ConstC == Primitive("Constant", "C")

FnF == Primitive("Fn", "F")

\* a Sequence built by hand and handed over with apply(sequence)
SuppliedSequence ==
    Put(EmptyMap, "rydberg",
        Put(EmptyMap, "detuning",
            Put(EmptyMap, [sm |-> "UniformModulation"], PrimitiveIR(ConstC))))

\* the first drive of a chain names its coupling and its field
FirstDrives ==
    { <<N("Rydberg"), N("Detuning"), N("Uniform"), LinA>>,
      <<N("Hyperfine"), N("Rabi"), N("RabiAmplitude"), Location(0), LinA>>,
      <<N("Rydberg"), N("Rabi"), N("RabiPhase"), Scale("a"), LinA>> }

\* what can select the next drive after a waveform
NextSelectors ==
    { <<>>,
      <<N("Detuning")>>,
      <<N("Rabi"), N("RabiPhase")>>,
      <<N("Hyperfine"), N("Rabi"), N("RabiAmplitude")>> }

NextSpatials == { N("Uniform"), Location(0) }

NextDrives ==
    { sel \o <<sp, LinB>> : sel \in NextSelectors, sp \in NextSpatials }

RECURSIVE DriveChains(_)
\* bodies of 1 .. n drives
DriveChains(n) ==
    IF n <= 1 THEN FirstDrives
    ELSE LET shorter == DriveChains(n - 1)
         IN  shorter \cup { b \o d : b \in shorter, d \in NextDrives }

PrimSeqs ==
    UNION { [1..n -> {LinA, LinB}] : n \in 1..MaxPrims }

\* the waveform expressions of one drive
WaveformTails ==
    PrimSeqs \cup
    { <<ConstC, Slice(0, 1)>>,
      <<LinA, Record("r")>>,
      <<LinA, Slice(0, 1), LinB>>,
      <<FnF>>,
      <<FnF, Sample("None", 1)>>,
      <<FnF, Sample("Constant", 1)>>,
      <<FnF, Sample("Linear", 1)>>,
      <<LinA, FnF, Sample("None", 1)>> }

WaveformDrives ==
    { sel \o <<N("Uniform")>> \o w :
        sel \in { <<N("Rydberg"), N("Detuning")>>,
                  <<N("Rydberg"), N("Rabi"), N("RabiAmplitude")>>,
                  <<N("Rydberg"), N("Rabi"), N("RabiPhase")>> },
        w \in WaveformTails }

\* chains asked to parse before the drive is complete
OpenBodies ==
    { <<N("Rydberg")>>,
      <<N("Rydberg"), N("Detuning")>>,
      <<N("Rydberg"), N("Detuning"), N("Uniform")>>,
      <<N("Rydberg"), N("Detuning"), N("Uniform"), LinA, N("Uniform")>> }

\* a drive on two sites: location(0).location(1), one Location node each
SiteBodies ==
    { <<N("Rydberg"), N("Detuning"), Location(0), Location(1), LinA>>,
      <<N("Rydberg"), N("Rabi"), N("RabiPhase"), Location(0), Location(1),
        LinA, N("Uniform"), LinB>> }

ClosedBodies ==
    DriveChains(MaxDrives) \cup WaveformDrives \cup SiteBodies

StaticA == { <<"x", 1>> }

BatchA == << { <<"y", 1>> }, { <<"y", 2>> } >>

BatchB == << { <<"z", 3>> } >>

PragmaTails ==
    { <<>>,
      <<Assign(StaticA)>>,
      <<BatchAssign(BatchA), Args(<<"b">>), Parallelize(2), N("BraketDeviceRoute")>>,
      <<Assign(StaticA), ListAssign(BatchB), Parallelize(1)>>,
      <<N("BraketDeviceRoute")>> }

\* the bodies the pragmas are tried on
PragmaBodies ==
    { <<>>,
      <<SequenceBuilder(SuppliedSequence)>>,
      <<N("Rydberg"), N("Detuning"), N("Uniform"), LinA>> }

ArgLists ==
    UNION { [1..n -> {"a", "b"}] : n \in 0..MaxArgs }

\* the body the Args name lists are tried on: it uses the scale variable a
ArgsBody ==
    <<N("Rydberg"), N("Detuning"), Scale("a"), LinA>>

Chains ==
    { <<RegisterNode>> \o b : b \in OpenBodies \cup ClosedBodies }
    \cup { <<RegisterNode>> \o b \o t : b \in PragmaBodies, t \in PragmaTails }
    \cup { <<RegisterNode>> \o ArgsBody \o <<Assign(StaticA), Args(a)>> :
             a \in ArgLists }

Ops == {"parse_register", "parse_sequence", "parse_circuit", "parse"}

(***************************************************************************)
(* BuilderStream: a cursor over the linearised chain.  A cursor is an      *)
(* index into chain; Len(chain) + 1 is the exhausted stream (curr None),   *)
(* and 0 stands for None where a node is expected.                         *)
(***************************************************************************)
RECURSIVE FirstOf(_, _, _)
\* the first node at or after cur whose kind is one of kinds, or 0
FirstOf(ch, cur, kinds) ==
    IF cur > Len(ch) THEN 0
    ELSE IF ch[cur].kind \in kinds THEN cur
    ELSE FirstOf(ch, cur + 1, kinds)

\* BuilderStream.read_next: the match (or None) and the cursor it leaves
ReadNext(ch, cur, kinds) ==
    LET found == FirstOf(ch, cur, kinds)
    IN  [node |-> found,
         cursor |-> IF found = 0 THEN Len(ch) + 1 ELSE found + 1]

\* node.__parent__ taken n times: the chain is the ancestry, so the parent
\* of the node at i is the node at i - 1
Ancestor(i, n) ==
    IF i - n >= 1 THEN i - n ELSE 0

KindAt(ch, i) ==
    IF i >= 1 /\ i <= Len(ch) THEN ch[i].kind ELSE "None"

\* a read_address that skips one level above every field, not only above
\* the Rabi fields
ReadAddressAlwaysSkips(ch, cur) ==
    LET r == ReadNext(ch, cur, SpatialKinds)
        spatial == r.node
        parent == Ancestor(spatial, 1)
    IN  IF spatial = 0
        THEN [coupling |-> 0, field |-> 0, spatial |-> 0, cursor |-> r.cursor]
        ELSE IF KindAt(ch, parent) \in FieldKinds
        THEN LET coupling == Ancestor(parent, 2)
             IN  [coupling |-> IF KindAt(ch, coupling) \in CouplingKinds
                               THEN coupling ELSE 0,
                  field |-> parent, spatial |-> spatial, cursor |-> r.cursor]
        ELSE [coupling |-> 0, field |-> 0, spatial |-> spatial,
              cursor |-> r.cursor]

\* a read_address without the check that the ancestor is a coupling
ReadAddressUnchecked(ch, cur) ==
    LET r == ReadNext(ch, cur, SpatialKinds)
        spatial == r.node
        parent == Ancestor(spatial, 1)
    IN  IF spatial = 0
        THEN [coupling |-> 0, field |-> 0, spatial |-> 0, cursor |-> r.cursor]
        ELSE IF KindAt(ch, parent) \in FieldKinds
        THEN [coupling |-> IF KindAt(ch, parent) \in {"RabiAmplitude", "RabiPhase"}
                           THEN Ancestor(parent, 2)
                           ELSE Ancestor(parent, 1),
              field |-> parent, spatial |-> spatial, cursor |-> r.cursor]
        ELSE [coupling |-> 0, field |-> 0, spatial |-> spatial,
              cursor |-> r.cursor]

\* a read_address that leaves the cursor on the spatial node it found
ReadAddressRescans(ch, cur) ==
    LET r == ReadNext(ch, cur, SpatialKinds)
        spatial == r.node
        parent == Ancestor(spatial, 1)
        cursor == IF spatial = 0 THEN r.cursor ELSE spatial
    IN  IF spatial = 0
        THEN [coupling |-> 0, field |-> 0, spatial |-> 0, cursor |-> cursor]
        ELSE IF KindAt(ch, parent) \in FieldKinds
        THEN LET coupling ==
                     IF KindAt(ch, parent) \in {"RabiAmplitude", "RabiPhase"}
                     THEN Ancestor(parent, 2)
                     ELSE Ancestor(parent, 1)
             IN  [coupling |-> IF KindAt(ch, coupling) \in CouplingKinds
                               THEN coupling ELSE 0,
                  field |-> parent, spatial |-> spatial, cursor |-> cursor]
        ELSE [coupling |-> 0, field |-> 0, spatial |-> spatial,
              cursor |-> cursor]

(***************************************************************************)
(* Parser.read_address (the loop over curr at lines 45-48 computes nothing *)
(* that is used)                                                           *)
(***************************************************************************)
ReadAddress(ch, cur) ==
    LET r == ReadNext(ch, cur, SpatialKinds)
        spatial == r.node
        parent == Ancestor(spatial, 1)
    IN  IF spatial = 0
        THEN [coupling |-> 0, field |-> 0, spatial |-> 0, cursor |-> r.cursor]
        ELSE IF KindAt(ch, parent) \in FieldKinds
        THEN LET coupling ==
                     IF KindAt(ch, parent) \in {"RabiAmplitude", "RabiPhase"}
                     THEN Ancestor(parent, 2)    \* skip Rabi
                     ELSE Ancestor(parent, 1)
             IN  [coupling |-> IF KindAt(ch, coupling) \in CouplingKinds
                               THEN coupling ELSE 0,
                  field |-> parent, spatial |-> spatial, cursor |-> r.cursor]
        ELSE [coupling |-> 0, field |-> 0, spatial |-> spatial,
              cursor |-> r.cursor]

(***************************************************************************)
(* Parser.read_waveform: fold the waveform nodes from head on into one     *)
(* waveform; fname is self.field_name when the fold runs.                  *)
(***************************************************************************)
\* an accumulation where the new piece replaces the accumulated waveform
AccumulateReplaces(waveform, piece) == piece

\* the new piece starts the waveform or is appended to the accumulated one
Accumulate(waveform, piece) ==
    IF waveform = NoneWf THEN piece ELSE AppendWf(waveform, piece)

\* the interpolation is Linear whatever the field
InterpolationAlwaysLinear(node, fname) ==
    IF node.interpolation = "None" THEN "Linear" ELSE node.interpolation

\* read_waveform on a Sample node: the interpolation it is lowered with
Interpolation(node, fname) ==
    IF node.interpolation = "None"
    THEN IF fname = "rabi.phase" THEN "Constant" ELSE "Linear"
    ELSE node.interpolation

RECURSIVE ReadWaveformFrom(_, _, _, _)
ReadWaveformFrom(ch, curr, waveform, fname) ==
    IF curr > Len(ch)
    THEN [wf |-> waveform, curr |-> curr, error |-> "none"]
    ELSE LET node == ch[curr]
         IN  CASE node.kind = "Slice" ->
                    IF waveform = NoneWf
                    THEN [wf |-> waveform, curr |-> curr, error |-> "TypeError"]
                    ELSE ReadWaveformFrom(ch, curr + 1,
                             SliceWf(waveform, node.start, node.stop), fname)
               [] node.kind = "Record" ->
                    IF waveform = NoneWf
                    THEN [wf |-> waveform, curr |-> curr,
                          error |-> "AttributeError"]
                    ELSE ReadWaveformFrom(ch, curr + 1,
                             RecordWf(waveform, node.name), fname)
               [] node.kind = "Sample" ->
                    LET interpolation == Interpolation(node, fname)
                        fn_waveform == PrimitiveIR(ch[curr - 1])
                        sample_waveform ==
                            SampleWf(fn_waveform, interpolation, node.dt)
                    IN  ReadWaveformFrom(ch, curr + 1,
                            Accumulate(waveform, sample_waveform), fname)
               [] node.kind = "Fn" /\ KindAt(ch, curr + 1) = "Sample" ->
                    ReadWaveformFrom(ch, curr + 1, waveform, fname)
               [] node.kind \in PrimitiveKinds ->
                    ReadWaveformFrom(ch, curr + 1,
                        Accumulate(waveform, PrimitiveIR(node)), fname)
               [] OTHER ->
                    [wf |-> waveform, curr |-> curr, error |-> "none"]

ReadWaveform(ch, head, fname) ==
    ReadWaveformFrom(ch, head, NoneWf, fname)

(***************************************************************************)
(* Parser.read_drive: the one-entry Field of the drive at head             *)
(***************************************************************************)
ReadDrive(ch, head, fname) ==
    LET sm == SpatialIR(ch[head])
        r == ReadWaveform(ch, head + 1, fname)
    IN  [sm |-> sm, wf |-> r.wf, error |-> r.error]

\* ir.Field.add of a one-entry Field: the same key sums, a new key is added
FieldAdd(field, sm, wf) ==
    IF sm \in DOMAIN field
    THEN Put(field, sm, AddWf(field[sm], wf))
    ELSE Put(field, sm, wf)

\* a merge that stores the drive as the field, without Field.add
MergeDriveOverwrites(seq, cname, fname, sm, wf) ==
    LET pulse == Get(seq, cname, EmptyMap)
    IN  Put(seq, cname, Put(pulse, fname, Put(EmptyMap, sm, wf)))

\* read_sequence: merge the drive under (cname, fname) of the sequence
MergeDrive(seq, cname, fname, sm, wf) ==
    LET pulse == Get(seq, cname, EmptyMap)
        field == Get(pulse, fname, EmptyMap)
    IN  Put(seq, cname, Put(pulse, fname, FieldAdd(field, sm, wf)))

(***************************************************************************)
(* Parser.read_pragmas: the checks of an Args pragma                       *)
(***************************************************************************)
RECURSIVE DupFrom(_, _, _, _)
\* the names of order met again after their first occurrence, in order
DupFrom(names, i, seen, dup) ==
    IF i > Len(names) THEN dup
    ELSE IF names[i] \notin seen
    THEN DupFrom(names, i + 1, seen \cup {names[i]}, dup)
    ELSE DupFrom(names, i + 1, seen, Append(dup, names[i]))

\* only the first duplicate is kept
DupFirstOnly(names) ==
    LET d == DupFrom(names, 1, {}, <<>>)
    IN  IF d = <<>> THEN d ELSE <<d[1]>>

Dup(names) == DupFrom(names, 1, {}, <<>>)

OrderNames(names) == { names[i] : i \in 1..Len(names) }

\* order_names.intersection(self.vector_node_names)
VectorNames(names, vectors) == OrderNames(names) \cap vectors

(***************************************************************************)
(* Outcomes of an entry point                                              *)
(***************************************************************************)
NoOutcome == [status |-> "none"]

Raised(err) == [status |-> "error", error |-> err]

RaisedDuplicate(dup) ==
    [status |-> "error", error |-> "ValueError", dup |-> dup]

RaisedVector(names) ==
    [status |-> "error", error |-> "ValueError", vector_names |-> names]

Returned(o) ==
    CASE o = "parse_register" ->
            [status |-> "ok", op |-> o, register |-> register]
      [] o = "parse_sequence" ->
            [status |-> "ok", op |-> o, sequence |-> sequence]
      [] o = "parse_circuit" ->
            [status |-> "ok", op |-> o, register |-> register,
             sequence |-> sequence]
      [] OTHER ->
            [status |-> "ok", op |-> o, register |-> register,
             sequence |-> sequence, static_params |-> static_params,
             batch_params |-> batch_params, args_list |-> order]

\* the node's Sequence is dropped
AdoptNothing(node) == EmptyMap

\* read_sequence on a SequenceBuilder node: the Sequence it carries
AdoptSequence(node) == node.sequence

\* the register is left unwrapped
WrapRegisterForgotten(reg, node) == reg

\* read_pragmas on a Parallelize node
WrapRegister(reg, node) ==
    ParallelRegister(reg, node.cluster_spacing)

\* where an entry point goes once read_sequence has returned
AfterSequence(o) ==
    IF o = "parse" THEN "read_pragmas" ELSE "return"

(***************************************************************************)
(* Constant-folding analysis (ir/analysis/is_constant.py): the waveforms  *)
(* it is given.  Scalars are literals or named free variables, evaluated  *)
(* under an assignment of the variables to numbers.                        *)
(***************************************************************************)
Lit(n) == [lit |-> n]

Var(name) == [var |-> name]

\* scalar(**assignments)
Value(e, a) ==
    IF "var" \in DOMAIN e THEN a[e.var] ELSE e.lit

ConstantWf(value, duration) ==
    [wf |-> "Constant", value |-> value, duration |-> duration]

LinearWf(start, stop, duration) ==
    [wf |-> "Linear", start |-> start, stop |-> stop, duration |-> duration]

PolyWf(coeffs, duration) ==
    [wf |-> "Poly", coeffs |-> coeffs, duration |-> duration]

\* fn is the opaque function of time: "flat" (2 at all times) or "ramp" (2t)
PythonFnWf(fn, duration) ==
    [wf |-> "PythonFn", fn |-> fn, duration |-> duration]

AppendOf(parts) == [wf |-> "Append", waveforms |-> parts]

AlignedWf(w, alignment) ==
    [wf |-> "AlignedWaveform", waveform |-> w, alignment |-> alignment]

NegativeWf(w) == [wf |-> "Negative", waveform |-> w]

ScaleWf(factor, w) == [wf |-> "Scale", scalar |-> factor, waveform |-> w]

SmoothWf(kernel, w) == [wf |-> "Smooth", kernel |-> kernel, waveform |-> w]

UnaryKinds ==
    {"AlignedWaveform", "Negative", "Record", "Sample", "Scale", "Slice",
     "Smooth"}

LeafKinds == {"Constant", "Linear", "Poly", "PythonFn"}

Max(x, y) == IF x >= y THEN x ELSE y

\* the opaque function of a PythonFn
FnAt(fn, t) == IF fn = "flat" THEN 2 ELSE 2 * t

RECURSIVE PolyAt(_, _, _, _)
\* sum of coeffs[i] * t^(i-1) from index i on, power = t^(i-1)
PolyAt(coeffs, i, power, t) ==
    IF i > Len(coeffs) THEN 0
    ELSE coeffs[i] * power + PolyAt(coeffs, i + 1, power * t, t)

RECURSIVE Duration(_, _)
\* Waveform.duration(**assignments)
Duration(w, a) ==
    CASE w.wf \in LeafKinds -> Value(w.duration, a)
      [] w.wf = "Append" ->
            IF w.waveforms = <<>> THEN 0
            ELSE Duration(Head(w.waveforms), a)
                 + Duration(AppendOf(Tail(w.waveforms)), a)
      [] w.wf = "Add" -> Max(Duration(w.left, a), Duration(w.right, a))
      [] w.wf = "Slice" -> w.stop - w.start
      [] OTHER -> Duration(w.waveform, a)

RECURSIVE EvalAt(_, _, _)
\* Waveform.eval_decimal(clock_s, **assignments); 0 beyond the duration
EvalAt(w, t, a) ==
    IF t > Duration(w, a) THEN 0
    ELSE
    CASE w.wf = "Constant" -> Value(w.value, a)
      [] w.wf = "Linear" ->
            LET start == Value(w.start, a)
                stop == Value(w.stop, a)
            IN  IF stop = start THEN start
                ELSE start + ((stop - start) * t) \div Value(w.duration, a)
      [] w.wf = "Poly" ->
            PolyAt([i \in DOMAIN w.coeffs |-> Value(w.coeffs[i], a)], 1, 1, t)
      [] w.wf = "PythonFn" -> FnAt(w.fn, t)
      [] w.wf = "Append" ->
            IF w.waveforms = <<>> THEN 0
            ELSE LET d == Duration(Head(w.waveforms), a)
                 IN  IF t <= d
                     THEN EvalAt(Head(w.waveforms), t, a)
                     ELSE EvalAt(AppendOf(Tail(w.waveforms)), t - d, a)
      [] w.wf = "Add" -> EvalAt(w.left, t, a) + EvalAt(w.right, t, a)
      [] w.wf = "Negative" -> 0 - EvalAt(w.waveform, t, a)
      [] w.wf = "Scale" -> Value(w.scalar, a) * EvalAt(w.waveform, t, a)
      [] w.wf = "Slice" -> EvalAt(w.waveform, t + w.start, a)
      [] OTHER -> EvalAt(w.waveform, t, a)

(***************************************************************************)
(* IsConstantWaveform: one visitor object is its is_constant flag; visited *)
(* logs the nodes handed to its visit, examined the parts of an Append it  *)
(* ran a fresh analysis on.                                                *)
(***************************************************************************)
\* IsConstantWaveform.__init__
FreshWaveformVisitor ==
    [is_constant |-> TRUE, visited |-> <<>>, examined |-> <<>>]

\* IsConstantWaveformResult
WaveformResult(is_constant, wf) ==
    [is_constant |-> is_constant, constant_waveform |-> wf]

\* coeffs[1:] has a non-zero coefficient
AnyHigherCoeff(coeffs, a) ==
    \E i \in DOMAIN coeffs : i > 1 /\ Value(coeffs[i], a) # 0

RECURSIVE Visit(_, _, _)
RECURSIVE VisitAppend(_, _, _, _, _)
RECURSIVE EmitWaveform(_, _)

\* the value end of emit: Constant(value at the end time, duration)
FoldedAtStart(w, a) ==
    ConstantWf(Lit(EvalAt(w, 0, a)), Lit(Duration(w, a)))

Folded(w, a) ==
    ConstantWf(Lit(EvalAt(w, Duration(w, a), a)), Lit(Duration(w, a)))

\* IsConstantWaveform.emit on a fresh visitor
EmitWaveform(w, a) ==
    WaveformResult(Visit(w, FreshWaveformVisitor, a).is_constant, Folded(w, a))

\* visit_linear: the flag is and-ed with start = stop
VisitLinearIgnoresStart(w, v, a) ==
    [v EXCEPT !.is_constant = v.is_constant /\ Value(w.stop, a) = 0]

VisitLinear(w, v, a) ==
    [v EXCEPT !.is_constant =
        v.is_constant /\ (Value(w.stop, a) - Value(w.start, a) = 0)]

RECURSIVE VisitAppendAnyValue(_, _, _, _, _)
\* a visit_append that never compares the values of the parts
VisitAppendAnyValue(parts, i, value, v, a) ==
    IF i > Len(parts) THEN v
    ELSE LET r == EmitWaveform(parts[i], a)
             ic == v.is_constant /\ r.is_constant
             v2 == [v EXCEPT !.is_constant = ic,
                             !.examined = Append(@, parts[i])]
         IN  IF ~ic THEN v2 ELSE VisitAppendAnyValue(parts, i + 1, value, v2, a)

\* the loop of visit_append from part i on; value is <<>> for None
VisitAppend(parts, i, value, v, a) ==
    IF i > Len(parts) THEN v
    ELSE LET r == EmitWaveform(parts[i], a)
             val == IF value = <<>> THEN <<r.constant_waveform.value>>
                    ELSE value
             ic == (v.is_constant /\ r.is_constant)
                   /\ (r.constant_waveform.value = val[1])
             v2 == [v EXCEPT !.is_constant = ic,
                             !.examined = Append(@, parts[i])]
         IN  IF ~ic THEN v2 ELSE VisitAppend(parts, i + 1, val, v2, a)

\* visit_add with the duration test left out
VisitAddAnyDuration(w, v, a) ==
    Visit(w.right, Visit(w.left, v, a), a)

\* visit_add
VisitAdd(w, v, a) ==
    IF Duration(w.left, a) # Duration(w.right, a)
    THEN [v EXCEPT !.is_constant = FALSE]
    ELSE Visit(w.right, Visit(w.left, v, a), a)

\* WaveformVisitor.visit: dispatch on the variant
Visit(w, v0, a) ==
    LET v == [v0 EXCEPT !.visited = Append(@, w)]
    IN  CASE w.wf = "Constant" -> v
          [] w.wf = "Linear" -> VisitLinear(w, v, a)
          [] w.wf = "Poly" ->
                IF AnyHigherCoeff(w.coeffs, a)
                THEN [v EXCEPT !.is_constant = FALSE] ELSE v
          [] w.wf = "PythonFn" -> [v EXCEPT !.is_constant = FALSE]
          [] w.wf = "Append" -> VisitAppend(w.waveforms, 1, <<>>, v, a)
          [] w.wf = "Add" -> VisitAdd(w, v, a)
          [] OTHER -> Visit(w.waveform, v, a)

(***************************************************************************)
(* The inputs of the analysis.                                             *)
(***************************************************************************)
MaxParts == 3       \* parts of one Append given to the analysis

\* complete assignments of the one free variable x
Assignments == {[x |-> 0], [x |-> 2]}

C21 == ConstantWf(Lit(2), Lit(1))

C22 == ConstantWf(Lit(2), Lit(2))

C41 == ConstantWf(Lit(4), Lit(1))

Cx1 == ConstantWf(Var("x"), Lit(1))

Ramp1 == LinearWf(Lit(0), Lit(2), Lit(1))

Ramp2 == LinearWf(Lit(0), Lit(2), Lit(2))

Flat2 == LinearWf(Lit(2), Lit(2), Lit(2))

LeafWaveforms ==
    { C21, C22, C41, Cx1, Ramp1, Ramp2, Flat2,
      LinearWf(Var("x"), Lit(2), Lit(1)),
      LinearWf(Lit(2), Lit(0), Lit(1)),
      PolyWf(<<>>, Lit(1)),
      PolyWf(<<Lit(2)>>, Lit(1)),
      PolyWf(<<Lit(2), Lit(0)>>, Lit(1)),
      PolyWf(<<Lit(2), Lit(2)>>, Lit(1)),
      PolyWf(<<Lit(2), Lit(0), Var("x")>>, Lit(2)),
      PythonFnWf("flat", Lit(1)),
      PythonFnWf("ramp", Lit(2)) }

\* every unary wrapper around w
Wrappers(w) ==
    { AlignedWf(w, "left"), NegativeWf(w), RecordWf(w, "r"),
      SampleWf(w, "Linear", 1), ScaleWf(Lit(2), w), ScaleWf(Var("x"), w),
      SliceWf(w, 0, 1), SmoothWf("gaussian", w) }

UnaryWaveforms ==
    LET once == UNION { Wrappers(w) : w \in LeafWaveforms }
        twice == UNION { Wrappers(w) : w \in Wrappers(Flat2) \cup Wrappers(Ramp2) }
    IN  once \cup twice

\* the parts an Append is made of
AppendParts ==
    { C21, C41, Ramp1, PythonFnWf("flat", Lit(1)), NegativeWf(C21),
      ScaleWf(Lit(2), C21) }

RECURSIVE PartSeqs(_)
\* the sequences of exactly n parts
PartSeqs(n) ==
    IF n = 0 THEN { <<>> }
    ELSE { Append(s, p) : s \in PartSeqs(n - 1), p \in AppendParts }

AppendWaveforms ==
    { AppendOf(s) : s \in UNION { PartSeqs(n) : n \in 0..MaxParts } }
    \cup { AppendOf(<<AppendOf(<<C21, C21>>), C21>>),
           AppendOf(<<AppendOf(<<C21, C41>>), C41>>),
           AppendOf(<<AddWf(C21, C21), C41>>),
           AppendOf(<<AddWf(C21, C22), C41>>),
           NegativeWf(AppendOf(<<C21, C21>>)),
           SliceWf(AppendOf(<<C21, C41>>), 1, 2) }

\* the operands of an Add
AddOperands ==
    { C21, C22, C41, Ramp2, Flat2, PythonFnWf("flat", Lit(1)),
      AppendOf(<<C21, C21>>), AppendOf(<<C21, C41>>), AppendOf(<<Ramp1, C21>>),
      NegativeWf(Ramp2) }

AddWaveforms ==
    { AddWf(l, r) : l \in AddOperands, r \in AddOperands }
    \cup { AddWf(AddWf(C21, C22), C22), AddWf(AddWf(C21, C21), C21),
           NegativeWf(AddWf(C21, C22)), NegativeWf(AddWf(C22, Flat2)) }

Waveforms ==
    LeafWaveforms \cup UnaryWaveforms \cup AppendWaveforms \cup AddWaveforms

(***************************************************************************)
(* IsConstantAnalogCircuit.  The Sequence, Pulse and Field it walks are    *)
(* Python dicts read with items(): sequences of <<key, value>> pairs with  *)
(* distinct keys, in insertion order.                                      *)
(***************************************************************************)
Uniform == [sm |-> "UniformModulation"]

Site0 == [sm |-> "ScaledLocations", label |-> 0]

\* the waveforms at the leaves of the circuits analysed
CircuitWaveforms == { C21, C22, C41, Cx1, Ramp1 }

OneField(w) ==
    << <<"rydberg", << <<"detuning", << <<Uniform, w>> >> >> >> >> >>

TwoDrives(w1, w2) ==
    << <<"rydberg", << <<"detuning", << <<Uniform, w1>>, <<Site0, w2>> >> >> >> >> >>

TwoFields(w1, w2) ==
    << <<"rydberg", << <<"detuning", << <<Uniform, w1>> >> >>,
                       <<"rabi.amplitude", << <<Uniform, w2>> >> >> >> >> >>

TwoPulses(w1, w2) ==
    << <<"rydberg", << <<"detuning", << <<Uniform, w1>> >> >> >> >>,
       <<"hyperfine", << <<"detuning", << <<Uniform, w2>> >> >> >> >> >>

ThreeDrives(w1, w2, w3) ==
    << <<"rydberg", << <<"detuning", << <<Site0, w1>>, <<Uniform, w2>> >> >> >> >>,
       <<"hyperfine", << <<"rabi.phase", << <<Uniform, w3>> >> >> >> >> >>

CircuitSequences ==
    { <<>>, << <<"rydberg", <<>> >> >>,
      << <<"rydberg", << <<"detuning", <<>> >> >> >> >> }
    \cup { OneField(w) : w \in CircuitWaveforms }
    \cup { TwoDrives(w1, w2) : w1, w2 \in CircuitWaveforms }
    \cup { TwoFields(w1, w2) : w1, w2 \in CircuitWaveforms }
    \cup { TwoPulses(w1, w2) : w1, w2 \in CircuitWaveforms }
    \cup { ThreeDrives(w1, w2, w3) : w1, w2, w3 \in CircuitWaveforms }

\* analog_circuit.AnalogCircuit(register, sequence)
AnalogCircuit(reg, seq) ==
    [register |-> reg, sequence |-> seq]

NoAst == [kind |-> "none"]

WaveformAst(w) == [kind |-> "waveform", waveform |-> w]

CircuitAst(c) == [kind |-> "circuit", circuit |-> c]

NoWalk == [pc |-> "none", p |-> 0, f |-> 0, d |-> 0]

NoVisitor == [is_constant |-> TRUE]

NoResult == [status |-> "none"]

\* IsConstantAnalogCircuit.__init__; the other attributes are set on the way
FreshCircuitVisitor ==
    [is_constant |-> TRUE, duration |-> <<>>, waveform |-> NoneWf,
     field |-> EmptyMap, pulse |-> EmptyMap, sequence |-> EmptyMap]

\* IsConstantAnalogCircuitResult
CircuitResult(is_constant, circuit) ==
    [status |-> "circuit", is_constant |-> is_constant,
     effective_analog_circuit |-> circuit]

\* a visit_waveform that takes the verdict of the last leaf
VisitWaveformLastLeaf(v, wf, a) ==
    LET r == EmitWaveform(wf, a)
    IN  [v EXCEPT !.is_constant = r.is_constant,
                  !.waveform = r.constant_waveform,
                  !.duration = <<Duration(r.constant_waveform, a)>>]

\* IsConstantAnalogCircuit.visit_waveform
VisitWaveform(v, wf, a) ==
    LET r == EmitWaveform(wf, a)
        ic == v.is_constant /\ r.is_constant
        d == Duration(r.constant_waveform, a)
    IN  IF v.duration = <<>>
        THEN [v EXCEPT !.is_constant = ic,
                       !.waveform = r.constant_waveform,
                       !.duration = <<d>>]
        ELSE [v EXCEPT !.is_constant = IF v.duration[1] # d THEN FALSE ELSE ic,
                       !.waveform = r.constant_waveform]

\* the field is replaced by the drive just folded
FoldDriveAlone(field, sm, wf) == Put(EmptyMap, sm, wf)

\* visit_field: self.field = self.field.add(field.Field({sm: self.waveform}))
FoldDrive(field, sm, wf) == FieldAdd(field, sm, wf)

\* the items being walked at each level
PulseItems == ast.circuit.sequence

FieldItems == PulseItems[walk.p][2]

DriveItems == FieldItems[walk.f][2]

(***************************************************************************)
(* BraketTask (task/braket.py) and the backend it submits to               *)
(* (submission/braket.py).  The service behind the backend is not part of  *)
(* the sources: a task it holds is Created, then Enqueued, then Running,   *)
(* and ends Completed, Partial or Failed, or Cancelled once cancelled.     *)
(***************************************************************************)
MaxTasks == 2       \* tasks the backend accepts in one behaviour
MaxCalls == 4       \* BraketTask methods called in one behaviour

\* task_id is None
NoId == 0

\* QuEraTaskStatusCode
StatusCodes ==
    {"Created", "Running", "Completed", "Failed", "Cancelled", "Executing",
     "Enqueued", "Accepted", "Unaccepted", "Partial", "Unsubmitted"}

\* QuEraTaskResults(task_status = s): a status and no shot outputs
StatusOnly(s) == [task_status |-> s, shot_outputs |-> NoId]

\* the QuEraTaskResults the backend converts from the results of task id,
\* which ended in state s
Downloaded(id, s) == [task_status |-> s, shot_outputs |-> id]

\* the states in which the service has finished with a task
RemoteTerminal == {"Completed", "Partial", "Failed", "Cancelled"}

\* the states a task held by the service can move to from state s
RemoteNext(s) ==
    CASE s = "Created" -> {"Enqueued"}
      [] s = "Enqueued" -> {"Running"}
      [] s = "Running" -> {"Completed", "Partial", "Failed"}
      [] OTHER -> {}

\* BraketBackend.submit_task when the service accepts: a new task, its id
SubmitTask(r) == [remote |-> Append(r, "Created"), id |-> Len(r) + 1]

\* BraketBackend.task_status when the service answers
TaskStatus(r, id) == r[id]

\* BraketBackend.task_results when the service answers; the task has ended
TaskResults(r, id) == Downloaded(id, r[id])

\* BraketBackend.cancel_task when the service answers
CancelTask(r, id) ==
    IF r[id] \in RemoteTerminal THEN r ELSE [r EXCEPT ![id] = "Cancelled"]

\* a guard of submit that refuses nothing
SubmitNeverRefused(force, id) == FALSE

\* BraketTask.submit: the submission is refused
SubmitRefused(force, id) == ~force /\ id # NoId

\* a fetch that returns at once on Completed only
FetchSkipsCompletedOnly(status) == status = "Completed"

\* BraketTask.fetch: the local statuses on which it returns at once
FetchSkips(status) ==
    status \in {"Completed", "Partial", "Failed", "Unaccepted", "Cancelled"}

\* BraketTask.fetch: the reported statuses on which it downloads the results
FetchDownloads(status) == status \in {"Completed", "Partial"}

\* no BraketTask method has been called
NoCall ==
    [op |-> "none", force |-> FALSE, pre_id |-> NoId,
     pre_ir |-> StatusOnly("Unsubmitted"), submit_calls |-> 0,
     status_calls |-> 0, results_calls |-> 0, cancel_calls |-> 0,
     reported |-> "none", raised |-> "none"]

\* method o is called on the task with id and results ir
NewCall(o, f, id, ir) ==
    [NoCall EXCEPT !.op = o, !.force = f, !.pre_id = id, !.pre_ir = ir]

\* BraketTask(task_id = None, ...): the field default of task_result_ir
TaskInit ==
    /\ task_id = NoId
    /\ task_result_ir = StatusOnly("Unsubmitted")
    /\ remote = <<>>
    /\ tpc = "idle"
    /\ call = NoCall
    /\ submit_task_calls = 0
    /\ forced = FALSE
    /\ n_calls = 0

(***************************************************************************)
(* State machine                                                           *)
(***************************************************************************)
Init ==
    /\ chain = <<>>
    /\ op = "none"
    /\ pc = "idle"
    /\ stream = 0
    /\ scan = 0
    /\ vector_node_names = {}
    /\ sequence = EmptyMap
    /\ register = NoneReg
    /\ batch_params = << {} >>
    /\ static_params = {}
    /\ order = <<>>
    /\ coupling_name = Unset
    /\ field_name = Unset
    /\ outcome = NoOutcome
    /\ prev = NoOutcome
    /\ n_scans = 0
    /\ drives = <<>>
    /\ other = NoOutcome
    /\ ast = NoAst
    /\ assignments = EmptyMap
    /\ walk = NoWalk
    /\ visitor = NoVisitor
    /\ result = NoResult
    /\ TaskInit

\* Parser.reset
Reset(b) ==
    /\ chain' = b
    /\ stream' = 1
    /\ vector_node_names' = {}
    /\ sequence' = EmptyMap
    /\ register' = NoneReg
    /\ batch_params' = << {} >>
    /\ static_params' = {}
    /\ order' = <<>>
    /\ UNCHANGED <<coupling_name, field_name>>

\* parse_register / parse_sequence / parse_circuit / parse: entry and reset
Call(o, b) ==
    /\ pc = "idle"
    /\ Reset(b)
    /\ op' = o
    /\ pc' = IF o = "parse_sequence" THEN "read_sequence" ELSE "read_register"
    /\ prev' = IF o = op /\ b = chain THEN outcome ELSE NoOutcome
    /\ other' = IF o # op /\ b = chain /\ outcome.status # "none"
                THEN [status |-> "seen", op |-> op, outcome |-> outcome]
                ELSE NoOutcome
    /\ outcome' = NoOutcome
    /\ scan' = 0
    /\ n_scans' = 0
    /\ drives' = <<>>
    /\ UNCHANGED analysisVars
    /\ UNCHANGED taskVars

\* Parser.read_register
ReadRegister ==
    /\ pc = "read_register"
    /\ register' = chain[stream]
    /\ stream' = stream + 1
    /\ pc' = IF op = "parse_register" THEN "read_pragmas" ELSE "read_sequence"
    /\ UNCHANGED <<chain, op, scan, vector_node_names, sequence, batch_params,
                   static_params, order, coupling_name, field_name, outcome,
                   prev, n_scans, drives>>
    /\ UNCHANGED other
    /\ UNCHANGED analysisVars
    /\ UNCHANGED taskVars

\* Parser.read_sequence up to the loop: a precomputed Sequence is adopted
ReadSequence ==
    /\ pc = "read_sequence"
    /\ IF stream > Len(chain)
       THEN \* self.stream.curr is None: None has no attribute node
            /\ outcome' = Raised("AttributeError")
            /\ pc' = "idle"
            /\ UNCHANGED <<sequence, stream, scan>>
       ELSE IF chain[stream].kind = "SequenceBuilder"
       THEN /\ sequence' = AdoptSequence(chain[stream])
            /\ stream' = stream + 1
            /\ pc' = AfterSequence(op)
            /\ UNCHANGED <<outcome, scan>>
       ELSE /\ scan' = stream
            /\ pc' = "sequence_loop"
            /\ UNCHANGED <<outcome, sequence, stream>>
    /\ UNCHANGED <<chain, op, vector_node_names, register, batch_params,
                   static_params, order, coupling_name, field_name, prev,
                   n_scans, drives>>
    /\ UNCHANGED other
    /\ UNCHANGED analysisVars
    /\ UNCHANGED taskVars

\* one iteration of the loop of Parser.read_sequence
SequenceLoop ==
    /\ pc = "sequence_loop"
    /\ IF scan > Len(chain)
       THEN /\ pc' = AfterSequence(op)
            /\ UNCHANGED <<scan, coupling_name, field_name, sequence, outcome,
                           n_scans, drives>>
       ELSE \E addr \in {ReadAddress(chain, scan)} :
            \E cname \in {IF addr.coupling # 0
                          THEN CouplingIR(chain[addr.coupling])
                          ELSE coupling_name} :
            \E fname \in {IF addr.field # 0
                          THEN FieldIR(chain[addr.field])
                          ELSE field_name} :
                /\ scan' = addr.cursor
                /\ n_scans' = n_scans + 1
                /\ coupling_name' = cname
                /\ field_name' = fname
                /\ IF addr.spatial = 0
                   THEN /\ pc' = AfterSequence(op)
                        /\ UNCHANGED <<sequence, outcome, drives>>
                   ELSE IF cname = Unset \/ fname = Unset
                   THEN \* the Parser has no such attribute yet
                        /\ outcome' = Raised("AttributeError")
                        /\ pc' = "idle"
                        /\ UNCHANGED <<sequence, drives>>
                   ELSE \E drive \in {ReadDrive(chain, addr.spatial, fname)} :
                        IF drive.error # "none"
                        THEN /\ outcome' = Raised(drive.error)
                             /\ pc' = "idle"
                             /\ UNCHANGED <<sequence, drives>>
                        ELSE /\ sequence' = MergeDrive(sequence, cname, fname,
                                                       drive.sm, drive.wf)
                             /\ drives' = Append(drives,
                                    [coupling |-> cname, field |-> fname,
                                     head |-> addr.spatial, sm |-> drive.sm,
                                     wf |-> drive.wf])
                             /\ pc' = "sequence_loop"
                             /\ UNCHANGED outcome
    /\ UNCHANGED <<chain, op, stream, vector_node_names, register,
                   batch_params, static_params, order, prev>>
    /\ UNCHANGED other
    /\ UNCHANGED analysisVars
    /\ UNCHANGED taskVars

\* Parser.read_pragmas up to the loop: find the first pragma node
ReadPragmas ==
    /\ pc = "read_pragmas"
    /\ scan' = LET r == ReadNext(chain, stream, PragmaKinds)
               IN  IF r.node = 0 THEN Len(chain) + 1 ELSE r.node
    /\ pc' = "pragma_loop"
    /\ UNCHANGED <<chain, op, stream, vector_node_names, sequence, register,
                   batch_params, static_params, order, coupling_name,
                   field_name, outcome, prev, n_scans, drives>>
    /\ UNCHANGED other
    /\ UNCHANGED analysisVars
    /\ UNCHANGED taskVars

\* one iteration of the loop of Parser.read_pragmas; scan is curr
PragmaLoop ==
    /\ pc = "pragma_loop"
    /\ IF scan > Len(chain)
       THEN /\ pc' = "return"
            /\ UNCHANGED <<scan, static_params, batch_params, order, register,
                           outcome>>
       ELSE LET node == chain[scan]
            IN  CASE node.kind = "Assign" ->
                       /\ static_params' = node.static_params
                       /\ scan' = scan + 1
                       /\ pc' = "pragma_loop"
                       /\ UNCHANGED <<batch_params, order, register, outcome>>
                  [] node.kind \in {"BatchAssign", "ListAssign"} ->
                       /\ batch_params' = node.batch_params
                       /\ scan' = scan + 1
                       /\ pc' = "pragma_loop"
                       /\ UNCHANGED <<static_params, order, register, outcome>>
                  [] node.kind = "Args" ->
                       IF Dup(node.order) # <<>>
                       THEN /\ outcome' = RaisedDuplicate(Dup(node.order))
                            /\ pc' = "idle"
                            /\ UNCHANGED <<scan, static_params, batch_params,
                                           order, register>>
                       ELSE IF VectorNames(node.order, vector_node_names) # {}
                       THEN /\ outcome' = RaisedVector(
                                  VectorNames(node.order, vector_node_names))
                            /\ pc' = "idle"
                            /\ UNCHANGED <<scan, static_params, batch_params,
                                           order, register>>
                       ELSE /\ order' = node.order
                            /\ scan' = scan + 1
                            /\ pc' = "pragma_loop"
                            /\ UNCHANGED <<static_params, batch_params,
                                           register, outcome>>
                  [] node.kind = "Parallelize" ->
                       /\ register' = WrapRegister(register, node)
                       /\ scan' = scan + 1
                       /\ pc' = "pragma_loop"
                       /\ UNCHANGED <<static_params, batch_params, order,
                                      outcome>>
                  [] OTHER ->
                       /\ pc' = "return"
                       /\ UNCHANGED <<scan, static_params, batch_params, order,
                                      register, outcome>>
    /\ UNCHANGED <<chain, op, stream, vector_node_names, sequence,
                   coupling_name, field_name, prev, n_scans, drives>>
    /\ UNCHANGED other
    /\ UNCHANGED analysisVars
    /\ UNCHANGED taskVars

\* the entry point builds what it returns
Return ==
    /\ pc = "return"
    /\ outcome' = Returned(op)
    /\ pc' = "idle"
    /\ UNCHANGED <<chain, op, stream, scan, vector_node_names, sequence,
                   register, batch_params, static_params, order, coupling_name,
                   field_name, prev, n_scans, drives>>
    /\ UNCHANGED other
    /\ UNCHANGED analysisVars
    /\ UNCHANGED taskVars

Next ==
    \/ \E o \in Ops, b \in Chains : Call(o, b)
    \/ ReadRegister
    \/ ReadSequence
    \/ SequenceLoop
    \/ ReadPragmas
    \/ PragmaLoop
    \/ Return

Spec == Init /\ [][Next]_vars

(***************************************************************************)
(* One call of an entry point, from the state reset leaves: the sticky     *)
(* coupling and field are whatever an earlier call left, all the rest is   *)
(* fresh.  The steps of the call are taken until it returns or raises.     *)
(***************************************************************************)
\* the coupling and field names a call can find when it starts
StickyNames ==
    { <<Unset, Unset>> }
    \cup ({"rydberg", "hyperfine"}
             \X {"detuning", "rabi.amplitude", "rabi.phase"})

CallInit ==
    /\ chain \in Chains
    /\ op \in Ops
    /\ pc = IF op = "parse_sequence" THEN "read_sequence" ELSE "read_register"
    /\ stream = 1
    /\ scan = 0
    /\ vector_node_names = {}
    /\ sequence = EmptyMap
    /\ register = NoneReg
    /\ batch_params = << {} >>
    /\ static_params = {}
    /\ order = <<>>
    /\ \E n \in StickyNames : coupling_name = n[1] /\ field_name = n[2]
    /\ outcome = NoOutcome
    /\ prev = NoOutcome
    /\ n_scans = 0
    /\ drives = <<>>
    /\ other = NoOutcome
    /\ ast = NoAst
    /\ assignments = EmptyMap
    /\ walk = NoWalk
    /\ visitor = NoVisitor
    /\ result = NoResult
    /\ TaskInit

CallNext ==
    \/ ReadRegister
    \/ ReadSequence
    \/ SequenceLoop
    \/ ReadPragmas
    \/ PragmaLoop
    \/ Return

\* a call that has started runs on: the code is sequential
CallSpec == CallInit /\ [][CallNext]_vars /\ WF_vars(CallNext)

(***************************************************************************)
(* The analysis as a state machine: emit is called on a waveform or on a  *)
(* circuit drawn from the inputs above, under one of the assignments.     *)
(***************************************************************************)
ParserIdle ==
    /\ chain = <<>>
    /\ op = "none"
    /\ pc = "idle"
    /\ stream = 0
    /\ scan = 0
    /\ vector_node_names = {}
    /\ sequence = EmptyMap
    /\ register = NoneReg
    /\ batch_params = << {} >>
    /\ static_params = {}
    /\ order = <<>>
    /\ coupling_name = Unset
    /\ field_name = Unset
    /\ outcome = NoOutcome
    /\ prev = NoOutcome
    /\ n_scans = 0
    /\ drives = <<>>
    /\ other = NoOutcome

AnalysisInit ==
    /\ ParserIdle
    /\ assignments \in Assignments
    /\ \/ /\ ast \in { WaveformAst(w) : w \in Waveforms }
          /\ visitor = FreshWaveformVisitor
       \/ /\ ast \in { CircuitAst(AnalogCircuit(RegisterNode, s)) :
                          s \in CircuitSequences }
          /\ visitor = FreshCircuitVisitor
    /\ walk = [pc |-> "emit", p |-> 0, f |-> 0, d |-> 0]
    /\ result = NoResult
    /\ TaskInit

\* IsConstantWaveform.emit
EmitOnWaveform ==
    /\ walk.pc = "emit"
    /\ ast.kind = "waveform"
    /\ visitor' = Visit(ast.waveform, visitor, assignments)
    /\ result' = [status |-> "waveform",
                  value |-> EmitWaveform(ast.waveform, assignments)]
    /\ walk' = [walk EXCEPT !.pc = "done"]
    /\ UNCHANGED <<ast, assignments>>
    /\ UNCHANGED parserVars
    /\ UNCHANGED taskVars

\* IsConstantAnalogCircuit.emit -> visit_analog_circuit -> visit_sequence
VisitSequence ==
    /\ walk.pc = "emit"
    /\ ast.kind = "circuit"
    /\ visitor' = [visitor EXCEPT !.sequence = EmptyMap]
    /\ walk' = [walk EXCEPT !.pc = "sequence", !.p = 1]
    /\ UNCHANGED <<ast, assignments, result>>
    /\ UNCHANGED parserVars
    /\ UNCHANGED taskVars

\* visit_sequence reaches the next pulse: visit_pulse starts
VisitPulse ==
    /\ walk.pc = "sequence"
    /\ walk.p <= Len(PulseItems)
    /\ visitor' = [visitor EXCEPT !.pulse = EmptyMap]
    /\ walk' = [walk EXCEPT !.pc = "pulse", !.f = 1]
    /\ UNCHANGED <<ast, assignments, result>>
    /\ UNCHANGED parserVars
    /\ UNCHANGED taskVars

\* visit_pulse reaches the next field: visit_field starts
VisitField ==
    /\ walk.pc = "pulse"
    /\ walk.f <= Len(FieldItems)
    /\ visitor' = [visitor EXCEPT !.field = EmptyMap]
    /\ walk' = [walk EXCEPT !.pc = "field", !.d = 1]
    /\ UNCHANGED <<ast, assignments, result>>
    /\ UNCHANGED parserVars
    /\ UNCHANGED taskVars

\* one iteration of the loop of visit_field
VisitDrive ==
    /\ walk.pc = "field"
    /\ walk.d <= Len(DriveItems)
    /\ LET sm == DriveItems[walk.d][1]
           wf == DriveItems[walk.d][2]
           v == VisitWaveform(visitor, wf, assignments)
       IN  visitor' = [v EXCEPT !.field = FoldDrive(v.field, sm, v.waveform)]
    /\ walk' = [walk EXCEPT !.d = @ + 1]
    /\ UNCHANGED <<ast, assignments, result>>
    /\ UNCHANGED parserVars
    /\ UNCHANGED taskVars

\* visit_field returns: self.pulse.fields[fn] = self.field
EndField ==
    /\ walk.pc = "field"
    /\ walk.d > Len(DriveItems)
    /\ visitor' = [visitor EXCEPT
                     !.pulse = Put(@, FieldItems[walk.f][1], visitor.field)]
    /\ walk' = [walk EXCEPT !.pc = "pulse", !.f = @ + 1]
    /\ UNCHANGED <<ast, assignments, result>>
    /\ UNCHANGED parserVars
    /\ UNCHANGED taskVars

\* visit_pulse returns: self.sequence.pulses[pn] = self.pulse
EndPulse ==
    /\ walk.pc = "pulse"
    /\ walk.f > Len(FieldItems)
    /\ visitor' = [visitor EXCEPT
                     !.sequence = Put(@, PulseItems[walk.p][1], visitor.pulse)]
    /\ walk' = [walk EXCEPT !.pc = "sequence", !.p = @ + 1]
    /\ UNCHANGED <<ast, assignments, result>>
    /\ UNCHANGED parserVars
    /\ UNCHANGED taskVars

\* visit_sequence returns; visit_analog_circuit and emit build the result
EndSequence ==
    /\ walk.pc = "sequence"
    /\ walk.p > Len(PulseItems)
    /\ result' = CircuitResult(visitor.is_constant,
                     AnalogCircuit(ast.circuit.register, visitor.sequence))
    /\ walk' = [walk EXCEPT !.pc = "done"]
    /\ UNCHANGED <<ast, assignments, visitor>>
    /\ UNCHANGED parserVars
    /\ UNCHANGED taskVars

AnalysisNext ==
    \/ EmitOnWaveform
    \/ VisitSequence
    \/ VisitPulse
    \/ VisitField
    \/ VisitDrive
    \/ EndField
    \/ EndPulse
    \/ EndSequence

AnalysisSpec == AnalysisInit /\ [][AnalysisNext]_vars

(***************************************************************************)
(* BraketTask as a state machine: its methods are called one after the     *)
(* other on a task constructed without a task id, while the service moves  *)
(* the tasks it holds.  A call of the backend returns or raises.  The call *)
(* of task_results waits until the service has finished with the task.     *)
(***************************************************************************)
TaskSpecInit ==
    /\ ParserIdle
    /\ ast = NoAst
    /\ assignments = EmptyMap
    /\ walk = NoWalk
    /\ visitor = NoVisitor
    /\ result = NoResult
    /\ TaskInit

\* BraketTask.submit
Submit(force) ==
    /\ tpc = "idle"
    /\ n_calls < MaxCalls
    /\ n_calls' = n_calls + 1
    /\ forced' = (forced \/ force)
    /\ tpc' = "idle"
    /\ IF SubmitRefused(force, task_id)
       THEN /\ call' = [NewCall("submit", force, task_id, task_result_ir)
                           EXCEPT !.raised = "ValueError"]
            /\ UNCHANGED <<task_id, task_result_ir, remote,
                           submit_task_calls>>
       ELSE /\ Len(remote) < MaxTasks
            /\ submit_task_calls' = submit_task_calls + 1
            /\ \/ \* backend.submit_task returns the id of the new task
                  /\ remote' = SubmitTask(remote).remote
                  /\ task_id' = SubmitTask(remote).id
                  /\ task_result_ir' = StatusOnly("Enqueued")
                  /\ call' = [NewCall("submit", force, task_id,
                                      task_result_ir)
                                 EXCEPT !.submit_calls = 1]
               \/ \* backend.submit_task raises
                  /\ call' = [NewCall("submit", force, task_id,
                                      task_result_ir)
                                 EXCEPT !.submit_calls = 1,
                                        !.raised = "BackendError"]
                  /\ UNCHANGED <<task_id, task_result_ir, remote>>
    /\ UNCHANGED parserVars
    /\ UNCHANGED analysisVars

\* BraketTask.fetch up to the return of self.status()
Fetch ==
    /\ tpc = "idle"
    /\ n_calls < MaxCalls
    /\ n_calls' = n_calls + 1
    /\ IF task_result_ir.task_status = "Unsubmitted"
       THEN /\ call' = [NewCall("fetch", FALSE, task_id, task_result_ir)
                           EXCEPT !.raised = "ValueError"]
            /\ tpc' = "idle"
            /\ UNCHANGED task_result_ir
       ELSE IF FetchSkips(task_result_ir.task_status)
       THEN /\ call' = NewCall("fetch", FALSE, task_id, task_result_ir)
            /\ tpc' = "idle"
            /\ UNCHANGED task_result_ir
       ELSE IF task_id = NoId
       THEN \* self.status() answers Unaccepted without asking the backend
            /\ call' = [NewCall("fetch", FALSE, task_id, task_result_ir)
                           EXCEPT !.reported = "Unaccepted"]
            /\ task_result_ir' = StatusOnly("Unaccepted")
            /\ tpc' = "idle"
       ELSE \/ \* backend.task_status raises
               /\ call' = [NewCall("fetch", FALSE, task_id, task_result_ir)
                              EXCEPT !.status_calls = 1,
                                     !.raised = "BackendError"]
               /\ tpc' = "idle"
               /\ UNCHANGED task_result_ir
            \/ \E status \in {TaskStatus(remote, task_id)} :
                  IF FetchDownloads(status)
                  THEN \* backend.task_results is called
                       /\ call' = [NewCall("fetch", FALSE, task_id,
                                           task_result_ir)
                                      EXCEPT !.status_calls = 1,
                                             !.reported = status,
                                             !.results_calls = 1]
                       /\ tpc' = "fetch_results"
                       /\ UNCHANGED task_result_ir
                  ELSE /\ call' = [NewCall("fetch", FALSE, task_id,
                                           task_result_ir)
                                      EXCEPT !.status_calls = 1,
                                             !.reported = status]
                       /\ task_result_ir' = StatusOnly(status)
                       /\ tpc' = "idle"
    /\ UNCHANGED <<task_id, remote, submit_task_calls, forced>>
    /\ UNCHANGED parserVars
    /\ UNCHANGED analysisVars

\* BraketTask.fetch: backend.task_results returns or raises
FetchResults ==
    /\ tpc = "fetch_results"
    /\ remote[task_id] \in RemoteTerminal
    /\ \/ /\ task_result_ir' = TaskResults(remote, task_id)
          /\ UNCHANGED call
       \/ /\ call' = [call EXCEPT !.raised = "BackendError"]
          /\ UNCHANGED task_result_ir
    /\ tpc' = "idle"
    /\ UNCHANGED <<task_id, remote, submit_task_calls, forced, n_calls>>
    /\ UNCHANGED parserVars
    /\ UNCHANGED analysisVars

\* BraketTask.pull up to the call of backend.task_results
Pull ==
    /\ tpc = "idle"
    /\ n_calls < MaxCalls
    /\ n_calls' = n_calls + 1
    /\ IF task_id = NoId
       THEN /\ call' = [NewCall("pull", FALSE, task_id, task_result_ir)
                           EXCEPT !.raised = "ValueError"]
            /\ tpc' = "idle"
       ELSE /\ call' = [NewCall("pull", FALSE, task_id, task_result_ir)
                           EXCEPT !.results_calls = 1]
            /\ tpc' = "pull_results"
    /\ UNCHANGED <<task_id, task_result_ir, remote, submit_task_calls,
                   forced>>
    /\ UNCHANGED parserVars
    /\ UNCHANGED analysisVars

\* BraketTask.pull: backend.task_results returns or raises
PullResults ==
    /\ tpc = "pull_results"
    /\ remote[task_id] \in RemoteTerminal
    /\ \/ /\ task_result_ir' = TaskResults(remote, task_id)
          /\ UNCHANGED call
       \/ /\ call' = [call EXCEPT !.raised = "BackendError"]
          /\ UNCHANGED task_result_ir
    /\ tpc' = "idle"
    /\ UNCHANGED <<task_id, remote, submit_task_calls, forced, n_calls>>
    /\ UNCHANGED parserVars
    /\ UNCHANGED analysisVars

\* BraketTask.result: it pulls unless the results are Completed
Result ==
    /\ tpc = "idle"
    /\ n_calls < MaxCalls
    /\ n_calls' = n_calls + 1
    /\ IF task_id # NoId /\ task_result_ir.task_status # "Completed"
       THEN /\ call' = [NewCall("result", FALSE, task_id, task_result_ir)
                           EXCEPT !.results_calls = 1]
            /\ tpc' = "pull_results"
       ELSE /\ call' = NewCall("result", FALSE, task_id, task_result_ir)
            /\ tpc' = "idle"
    /\ UNCHANGED <<task_id, task_result_ir, remote, submit_task_calls,
                   forced>>
    /\ UNCHANGED parserVars
    /\ UNCHANGED analysisVars

\* BraketTask.status
Status ==
    /\ tpc = "idle"
    /\ n_calls < MaxCalls
    /\ n_calls' = n_calls + 1
    /\ IF task_id = NoId
       THEN call' = [NewCall("status", FALSE, task_id, task_result_ir)
                        EXCEPT !.reported = "Unaccepted"]
       ELSE \/ call' = [NewCall("status", FALSE, task_id, task_result_ir)
                           EXCEPT !.status_calls = 1,
                                  !.reported = TaskStatus(remote, task_id)]
            \/ call' = [NewCall("status", FALSE, task_id, task_result_ir)
                           EXCEPT !.status_calls = 1,
                                  !.raised = "BackendError"]
    /\ UNCHANGED <<task_id, task_result_ir, remote, tpc, submit_task_calls,
                   forced>>
    /\ UNCHANGED parserVars
    /\ UNCHANGED analysisVars

\* BraketTask.cancel
Cancel ==
    /\ tpc = "idle"
    /\ n_calls < MaxCalls
    /\ n_calls' = n_calls + 1
    /\ IF task_id = NoId
       THEN \* the warning
            /\ call' = NewCall("cancel", FALSE, task_id, task_result_ir)
            /\ UNCHANGED remote
       ELSE \/ /\ call' = [NewCall("cancel", FALSE, task_id, task_result_ir)
                              EXCEPT !.cancel_calls = 1]
               /\ remote' = CancelTask(remote, task_id)
            \/ /\ call' = [NewCall("cancel", FALSE, task_id, task_result_ir)
                              EXCEPT !.cancel_calls = 1,
                                     !.raised = "BackendError"]
               /\ UNCHANGED remote
    /\ UNCHANGED <<task_id, task_result_ir, tpc, submit_task_calls, forced>>
    /\ UNCHANGED parserVars
    /\ UNCHANGED analysisVars

\* the service moves one of the tasks it holds
ServiceStep ==
    /\ \E id \in 1..Len(remote) :
          \E s \in RemoteNext(remote[id]) :
             remote' = [remote EXCEPT ![id] = s]
    /\ UNCHANGED <<task_id, task_result_ir, tpc, call, submit_task_calls,
                   forced, n_calls>>
    /\ UNCHANGED parserVars
    /\ UNCHANGED analysisVars

TaskNext ==
    \/ \E force \in BOOLEAN : Submit(force)
    \/ Fetch
    \/ FetchResults
    \/ Pull
    \/ PullResults
    \/ Result
    \/ Status
    \/ Cancel
    \/ ServiceStep

\* a call of task_results on a task the service has finished with comes
\* back: the method that made it runs on
TaskSpec ==
    /\ TaskSpecInit
    /\ [][TaskNext]_vars
    /\ WF_vars(FetchResults)
    /\ WF_vars(PullResults)

(***************************************************************************)
(* Properties                                                              *)
(***************************************************************************)
\* a call has just run reset and nothing else
JustReset ==
    \/ pc = "read_register"
    \/ pc = "read_sequence" /\ op = "parse_sequence"

\* the last call has finished (returned or raised)
Finished(o) ==
    pc = "idle" /\ op = o /\ outcome.status # "none"

\* C1: at the start of each top-level call every piece of running state is
\* reset to what a freshly constructed Parser holds: current coupling,
\* current field, sequence, register, static and batch parameters, args
\* order and scale-variable names.
C1_ResetClearsAllRunningState ==
    JustReset =>
        /\ coupling_name = Unset
        /\ field_name = Unset
        /\ sequence = EmptyMap
        /\ register = NoneReg
        /\ static_params = {}
        /\ batch_params = << {} >>
        /\ order = <<>>
        /\ vector_node_names = {}

\* C2: parse called twice in a row on the same chain with the same Parser
\* gives structurally equal register, sequence and parameters (or the same
\* error) both times.
C2_ParseTwiceSameResult ==
    (Finished("parse") /\ prev.status # "none") => outcome = prev

C2_Witness ==
    /\ Finished("parse")
    /\ prev.status = "ok"
    /\ outcome.status = "ok"
    /\ outcome.sequence # EmptyMap
    /\ outcome.static_params # {}

RECURSIVE AddAll(_, _, _)
\* the waveforms ws[i..] added in order onto acc
AddAll(ws, i, acc) ==
    IF i > Len(ws) THEN acc
    ELSE AddAll(ws, i + 1, AddWf(acc, ws[i]))

\* the positions in drives of the drives under (c, f) on key sm, ascending
DrivesOn(c, f, sm) ==
    { i \in 1..Len(drives) :
        drives[i].coupling = c /\ drives[i].field = f /\ drives[i].sm = sm }

RECURSIVE Ascending(_)
Ascending(S) ==
    IF S = {} THEN <<>>
    ELSE LET m == CHOOSE x \in S : \A y \in S : x <= y
         IN  <<m>> \o Ascending(S \ {m})

\* the Add-merge, in chain order, of the waveforms of the drives on a key
MergedWaveform(c, f, sm) ==
    LET at == Ascending(DrivesOn(c, f, sm))
        ws == [j \in 1..Len(at) |-> drives[at[j]].wf]
    IN  AddAll(ws, 2, ws[1])

\* C3: the Field stored under a (coupling, field) pair maps each spatial key
\* to the Add-merge, in chain order, of the waveforms of all the drives
\* issued with that (coupling, field, key): a later drive on a key never
\* overwrites the earlier waveform, and distinct keys are separate entries.
C3_FieldIsAddMergeOfDrives ==
    drives # <<>> =>
        /\ \A i \in 1..Len(drives) :
             /\ drives[i].coupling \in DOMAIN sequence
             /\ drives[i].field \in DOMAIN sequence[drives[i].coupling]
             /\ drives[i].sm \in
                    DOMAIN sequence[drives[i].coupling][drives[i].field]
        /\ \A c \in DOMAIN sequence : \A f \in DOMAIN sequence[c] :
             \A sm \in DOMAIN sequence[c][f] :
                /\ DrivesOn(c, f, sm) # {}
                /\ sequence[c][f][sm] = MergedWaveform(c, f, sm)

C3_Witness ==
    /\ Finished("parse")
    /\ outcome.status = "ok"
    /\ Len(drives) = 2
    /\ drives[1].wf = PrimitiveIR(LinA)
    /\ drives[2].wf = PrimitiveIR(LinB)
    /\ \E c \in DOMAIN sequence : \E f \in DOMAIN sequence[c] :
         \E sm \in DOMAIN sequence[c][f] :
            sequence[c][f][sm] = AddWf(PrimitiveIR(LinA), PrimitiveIR(LinB))

RECURSIVE PrimitiveRun(_, _)
\* the leaves of the plain primitive nodes that follow one another from i on
PrimitiveRun(ch, i) ==
    IF KindAt(ch, i) \in {"Linear", "Constant"}
    THEN <<PrimitiveIR(ch[i])>> \o PrimitiveRun(ch, i + 1)
    ELSE <<>>

WaveformKinds == PrimitiveKinds \cup {"Slice", "Record", "Sample"}

\* C4: a drive whose waveform expression is a run of primitive nodes (no
\* other waveform node) lowers to the first primitive alone, or to the
\* Append of the primitives in call order: A then B give Append([A, B]).
C4_PrimitivesAppendInCallOrder ==
    \A i \in 1..Len(drives) :
        LET run == PrimitiveRun(chain, drives[i].head + 1)
            after == drives[i].head + 1 + Len(run)
        IN  (Len(run) >= 1 /\ KindAt(chain, after) \notin WaveformKinds) =>
                drives[i].wf =
                    IF Len(run) = 1 THEN run[1]
                    ELSE [wf |-> "Append", waveforms |-> run]

C4_Witness ==
    /\ Finished("parse")
    /\ outcome.status = "ok"
    /\ Len(drives) = 1
    /\ KindAt(chain, drives[1].head + 1) = "Linear"
    /\ KindAt(chain, drives[1].head + 2) = "Linear"
    /\ drives[1].wf =
          [wf |-> "Append",
           waveforms |-> <<PrimitiveIR(LinA), PrimitiveIR(LinB)>>]

\* the spatial node the next address scan finds (0: none is left)
NextSpatial == FirstOf(chain, scan, SpatialKinds)

\* the node a field's coupling is looked for at: above the field, and one
\* level further up above a Rabi field
ResolvedAncestor(field) ==
    IF KindAt(chain, field) \in {"RabiAmplitude", "RabiPhase"}
    THEN field - 2 ELSE field - 1

\* C5: in the sequence pass a spatial node whose parent is not Detuning /
\* RabiAmplitude / RabiPhase leaves the current coupling and field
\* unchanged; with a field parent the current field becomes that field and
\* the coupling changes only if the resolved ancestor is Rydberg or
\* Hyperfine; the drive is merged under the resulting (coupling, field).
C5_StickyCouplingAndField ==
    [][ (pc = "sequence_loop" /\ scan <= Len(chain) /\ NextSpatial # 0) =>
          LET parent == NextSpatial - 1
          IN  /\ KindAt(chain, parent) \notin FieldKinds =>
                    /\ coupling_name' = coupling_name
                    /\ field_name' = field_name
              /\ KindAt(chain, parent) \in FieldKinds =>
                    /\ field_name' = FieldIR(chain[parent])
                    /\ coupling_name' # coupling_name =>
                          KindAt(chain, ResolvedAncestor(parent))
                              \in CouplingKinds
              /\ pc' = "sequence_loop" =>
                    LET d == drives'[Len(drives')]
                    IN  /\ Len(drives') = Len(drives) + 1
                        /\ d.head = NextSpatial
                        /\ d.coupling = coupling_name'
                        /\ d.field = field_name'
                        /\ d.sm \in DOMAIN sequence'[d.coupling][d.field]
      ]_vars

C5_Witness ==
    /\ Finished("parse")
    /\ outcome.status = "ok"
    /\ Len(drives) = 2
    /\ KindAt(chain, drives[2].head - 1) \notin FieldKinds
    /\ drives[2].coupling = drives[1].coupling
    /\ drives[2].field = drives[1].field
    /\ drives[2].sm # drives[1].sm
    /\ Cardinality(DOMAIN sequence[drives[1].coupling][drives[1].field]) = 2

\* C6: on a chain with no spatial-modulation node after the register (the
\* register alone, or the register and pragma nodes only) the sequence pass
\* of parse and parse_circuit ends without error with the empty Sequence.
C6_NoSpatialGivesEmptySequence ==
    \A o \in {"parse", "parse_circuit"} :
        (/\ Finished(o)
         /\ FirstOf(chain, 2, SpatialKinds) = 0
         /\ FirstOf(chain, 2, {"SequenceBuilder"}) = 0
         /\ \A i \in 2..Len(chain) : chain[i].kind \in PragmaKinds) =>
            /\ outcome.status = "ok"
            /\ outcome.sequence = EmptyMap

\* C7: when the node after the register is a SequenceBuilder, parse returns
\* a circuit whose sequence is exactly the Sequence the node carries, and no
\* address scan or drive merge is made.
C7_SuppliedSequenceAdopted ==
    (Finished("parse") /\ outcome.status = "ok"
        /\ KindAt(chain, 2) = "SequenceBuilder") =>
            /\ outcome.sequence = chain[2].sequence
            /\ n_scans = 0
            /\ drives = <<>>

C7_Witness ==
    /\ Finished("parse")
    /\ outcome.status = "ok"
    /\ KindAt(chain, 2) = "SequenceBuilder"
    /\ outcome.sequence = SuppliedSequence
    /\ outcome.sequence # EmptyMap

\* the names that occur more than once in a name list
Repeated(names) ==
    { names[i] : i \in { k \in 1..Len(names) :
                           \E j \in 1..Len(names) :
                               j # k /\ names[j] = names[k] } }

ArgsAt(ch) == FirstOf(ch, 1, {"Args"})

\* C8: parse of a chain whose Args name list repeats a name fails with the
\* duplicate-names error naming every repeated name, the args order stays
\* unassigned and nothing is returned; a list of distinct names raises no
\* duplicate error.
C8_DuplicateArgsRejected ==
    (Finished("parse") /\ ArgsAt(chain) # 0) =>
        LET names == chain[ArgsAt(chain)].order
        IN  IF Repeated(names) # {}
            THEN /\ outcome.status = "error"
                 /\ "dup" \in DOMAIN outcome
                 /\ OrderNames(outcome.dup) = Repeated(names)
                 /\ order = <<>>
            ELSE "dup" \notin DOMAIN outcome

C8_Witness ==
    /\ Finished("parse")
    /\ outcome.status = "error"
    /\ "dup" \in DOMAIN outcome
    /\ OrderNames(outcome.dup) = {"a", "b"}
    /\ order = <<>>

\* the variable names of the Scale spatial modulations of a chain
ScaleNames(ch) ==
    { ch[i].name : i \in { k \in 1..Len(ch) : ch[k].kind = "Scale" } }

\* C9: an Args name that is also a scale-variable name of the chain makes
\* parse fail, so the args_list of every bundle parse returns is disjoint
\* from the scale-variable names of the chain.
C9_ArgsDisjointFromScaleNames ==
    (Finished("parse") /\ outcome.status = "ok") =>
        OrderNames(outcome.args_list) \cap ScaleNames(chain) = {}

RECURSIVE PragmaFold(_, _, _)
\* the pragma nodes met one after the other from i on, applied in order
PragmaFold(ch, i, st) ==
    CASE KindAt(ch, i) = "Assign" ->
            PragmaFold(ch, i + 1,
                [st EXCEPT !.static_params = ch[i].static_params])
      [] KindAt(ch, i) \in {"BatchAssign", "ListAssign"} ->
            PragmaFold(ch, i + 1,
                [st EXCEPT !.batch_params = ch[i].batch_params])
      [] KindAt(ch, i) = "Args" ->
            PragmaFold(ch, i + 1, [st EXCEPT !.order = ch[i].order])
      [] KindAt(ch, i) = "Parallelize" ->
            PragmaFold(ch, i + 1,
                [st EXCEPT !.register =
                    ParallelRegister(st.register, ch[i].cluster_spacing)])
      [] OTHER -> st

\* what the pragma pass leaves on a chain: nothing applied when the chain
\* has no pragma node
PragmasOf(ch) ==
    LET first == FirstOf(ch, 2, PragmaKinds)
    IN  PragmaFold(ch, IF first = 0 THEN Len(ch) + 1 ELSE first,
            [static_params |-> {}, batch_params |-> << {} >>,
             order |-> <<>>, register |-> ch[1]])

\* C10: the pragma pass applies, in chain order, the pragma nodes that
\* follow one another from the first one on and stops at the first other
\* node or at the end of the chain without raising; with no pragma node it
\* leaves static_params = {}, batch_params = [{}], args order = () and the
\* register unwrapped.  The only error of the pass is a rejected Args list.
C10_PragmasAppliedInChainOrder ==
    /\ [](/\ (pc = "return" /\ op \in {"parse", "parse_register"}) =>
               [static_params |-> static_params,
                batch_params |-> batch_params,
                order |-> order, register |-> register] = PragmasOf(chain)
          /\ (Finished("parse_register") /\ outcome.status = "error") =>
               /\ ArgsAt(chain) # 0
               /\ Repeated(chain[ArgsAt(chain)].order) # {})
    /\ [][ pc = "pragma_loop" =>
             /\ pc' = "pragma_loop" =>
                   /\ scan <= Len(chain)
                   /\ chain[scan].kind \in PragmaKinds
                   /\ scan' = scan + 1
             /\ pc' = "return" =>
                   /\ scan > Len(chain) \/ chain[scan].kind \notin PragmaKinds
                   /\ UNCHANGED <<static_params, batch_params, order,
                                  register, outcome>>
       ]_vars

C10_Witness ==
    /\ pc = "return"
    /\ op = "parse"
    /\ register = ParallelRegister(RegisterNode, 2)
    /\ batch_params = BatchA
    /\ order = <<"b">>
    /\ scan <= Len(chain)
    /\ chain[scan].kind \notin PragmaKinds

C10_WitnessNoPragma ==
    /\ pc = "return"
    /\ op = "parse"
    /\ FirstOf(chain, 1, PragmaKinds) = 0
    /\ drives # <<>>
    /\ register = RegisterNode

(***************************************************************************)
(* Properties of the constant-folding analysis (under AnalysisSpec).       *)
(***************************************************************************)
\* emit on a waveform has returned
WaveformDone == walk.pc = "done" /\ ast.kind = "waveform"

\* the verdict emit returned on the waveform
Verdict == result.value.is_constant

RECURSIVE UnaryOverLeaf(_)
\* w is a leaf under unary wrappers only
UnaryOverLeaf(w) ==
    \/ w.wf \in LeafKinds
    \/ w.wf \in UnaryKinds /\ UnaryOverLeaf(w.waveform)

RECURSIVE RuleConstant(_, _)
\* the per-variant rules of the analysis on leaves and unary wrappers
RuleConstant(w, a) ==
    CASE w.wf = "Constant" -> TRUE
      [] w.wf = "Linear" -> Value(w.start, a) = Value(w.stop, a)
      [] w.wf = "Poly" ->
            \A i \in DOMAIN w.coeffs : i >= 2 => Value(w.coeffs[i], a) = 0
      [] w.wf = "PythonFn" -> FALSE
      [] OTHER -> RuleConstant(w.waveform, a)

\* C11: on a waveform made of Constant, Linear, Poly and PythonFn leaves
\* under unary wrappers, the verdict of a fresh IsConstantWaveform is the one
\* of the per-variant rules: Constant is constant, Linear iff start = stop,
\* Poly iff every coefficient above order 0 is zero, PythonFn never, a
\* wrapper iff its inner waveform is.
C11_VerdictFollowsVariantRules ==
    (WaveformDone /\ UnaryOverLeaf(ast.waveform))
        => (Verdict <=> RuleConstant(ast.waveform, assignments))

\* a Slice of a Linear whose start is the free variable was found constant
C11_Witness ==
    /\ WaveformDone
    /\ ast.waveform.wf = "Slice"
    /\ ast.waveform.waveform.wf = "Linear"
    /\ ast.waveform.waveform.start = Var("x")
    /\ Verdict

\* the end value of a part: the value of its folded Constant
PartValue(w, a) == EvalAt(w, Duration(w, a), a)

\* the part is constant for a fresh analysis and has the value of part 1
PartAgrees(parts, i, a) ==
    /\ EmitWaveform(parts[i], a).is_constant
    /\ PartValue(parts[i], a) = PartValue(parts[1], a)

\* how many parts are examined: up to the first that does not agree
Examined(parts, a) ==
    IF \A i \in DOMAIN parts : PartAgrees(parts, i, a) THEN Len(parts)
    ELSE CHOOSE i \in DOMAIN parts :
            /\ ~PartAgrees(parts, i, a)
            /\ \A j \in 1..(i - 1) : PartAgrees(parts, j, a)

\* C12: an Append is reported constant iff every part is constant on its
\* own and all parts have the same value; the parts are examined in order
\* and the examination stops at the first part that is not constant or
\* whose value differs from the first part's.
C12_AppendConstantIffPartsAgree ==
    (WaveformDone /\ ast.waveform.wf = "Append") =>
        LET parts == ast.waveform.waveforms
        IN  /\ Verdict <=> \A i \in DOMAIN parts : PartAgrees(parts, i, assignments)
            /\ visitor.examined = SubSeq(parts, 1, Examined(parts, assignments))

\* three parts, each constant, the second with another value: the third
\* part was not examined
C12_Witness ==
    /\ WaveformDone
    /\ ast.waveform.wf = "Append"
    /\ Len(ast.waveform.waveforms) = 3
    /\ \A i \in 1..3 : EmitWaveform(ast.waveform.waveforms[i], assignments).is_constant
    /\ Len(visitor.examined) = 2
    /\ ~Verdict

\* C13: on Add(left, right) with operands of different evaluated durations
\* the verdict is false and neither operand was visited; with equal
\* durations the verdict is true iff both operands are constant.
C13_AddNeedsEqualDurations ==
    (WaveformDone /\ ast.waveform.wf = "Add") =>
        LET l == ast.waveform.left
            r == ast.waveform.right
        IN  IF Duration(l, assignments) # Duration(r, assignments)
            THEN /\ ~Verdict
                 /\ visitor.visited = <<ast.waveform>>
                 /\ visitor.examined = <<>>
            ELSE Verdict <=> /\ EmitWaveform(l, assignments).is_constant
                             /\ EmitWaveform(r, assignments).is_constant

\* Add(Constant(2, duration 1), Constant(2, duration 2)) was found not constant
C13_Witness ==
    /\ WaveformDone
    /\ ast.waveform = AddWf(C21, C22)
    /\ ~Verdict

\* C14: whatever the verdict, emit returns the folded waveform
\* Constant(v, d), d the total duration of the waveform and v its value at
\* time d; Linear(start 2, stop 2, duration 2) gives a true verdict with
\* Constant(2, duration 2).
C14_FoldedIsEndValueAndDuration ==
    WaveformDone =>
        LET d == Duration(ast.waveform, assignments)
        IN  /\ result.value.constant_waveform =
                 [wf |-> "Constant", duration |-> Lit(d),
                  value |-> Lit(EvalAt(ast.waveform, d, assignments))]
            /\ ast.waveform = Flat2 =>
                 /\ Verdict
                 /\ result.value.constant_waveform = ConstantWf(Lit(2), Lit(2))

\* a ramp from 0 to 2 was found not constant and folded to its end value
C14_Witness ==
    /\ WaveformDone
    /\ ast.waveform = Ramp2
    /\ ~Verdict
    /\ result.value.constant_waveform = ConstantWf(Lit(2), Lit(2))

\* emit on a circuit has returned
CircuitDone == walk.pc = "done" /\ ast.kind = "circuit"

\* the positions <<p, f, d>> of the waveform leaves of a Sequence
LeafPositions(seq) ==
    UNION { UNION { { <<p, f, d>> : d \in DOMAIN seq[p][2][f][2] } :
                    f \in DOMAIN seq[p][2] } :
            p \in DOMAIN seq }

LeafAt(seq, pos) == seq[pos[1]][2][pos[2]][2][pos[3]][2]

\* the folded representative of a leaf: Constant(end value, duration)
FoldedLeaf(w, a) ==
    [wf |-> "Constant", duration |-> Lit(Duration(w, a)),
     value |-> Lit(EvalAt(w, Duration(w, a), a))]

\* every leaf is constant on its own and all have one duration
AllConstantOneDuration(seq, a) ==
    /\ \A pos \in LeafPositions(seq) : EmitWaveform(LeafAt(seq, pos), a).is_constant
    /\ \A x, y \in LeafPositions(seq) :
          Duration(LeafAt(seq, x), a) = Duration(LeafAt(seq, y), a)

\* C15: the verdict a fresh IsConstantAnalogCircuit returns is true iff
\* every waveform leaf of the Sequence is constant on its own and all leaves
\* have one common duration; once the verdict is false during the traversal
\* it never becomes true again.
C15_CircuitVerdictAllOrNothing ==
    /\ [](CircuitDone =>
            (result.is_constant
                <=> AllConstantOneDuration(ast.circuit.sequence, assignments)))
    /\ [][(ast.kind = "circuit" /\ ~visitor.is_constant)
            => ~visitor'.is_constant]_vars

\* three leaves, each constant, one of another duration: verdict false
C15_Witness ==
    /\ CircuitDone
    /\ Cardinality(LeafPositions(ast.circuit.sequence)) = 3
    /\ \A pos \in LeafPositions(ast.circuit.sequence) :
          EmitWaveform(LeafAt(ast.circuit.sequence, pos), assignments).is_constant
    /\ ~result.is_constant

\* C16: whatever the verdict, the circuit returned has the register of the
\* input and its shape - the same couplings, the same field names under each
\* coupling, the same spatial keys under each field - and each leaf is the
\* folded Constant(end value, duration) of the input leaf at that position.
C16_EffectiveCircuitKeepsShape ==
    CircuitDone =>
        LET seq == ast.circuit.sequence
            out == result.effective_analog_circuit
        IN  /\ out.register = ast.circuit.register
            /\ DOMAIN out.sequence = { seq[p][1] : p \in DOMAIN seq }
            /\ \A p \in DOMAIN seq :
                 LET pulse == out.sequence[seq[p][1]]
                     fields == seq[p][2]
                 IN  /\ DOMAIN pulse = { fields[f][1] : f \in DOMAIN fields }
                     /\ \A f \in DOMAIN fields :
                          LET field == pulse[fields[f][1]]
                              ds == fields[f][2]
                          IN  /\ DOMAIN field = { ds[d][1] : d \in DOMAIN ds }
                              /\ \A d \in DOMAIN ds :
                                   field[ds[d][1]] = FoldedLeaf(ds[d][2], assignments)

\* a circuit of two pulses and three drives, one of them a ramp, was rebuilt
C16_Witness ==
    /\ CircuitDone
    /\ Len(ast.circuit.sequence) = 2
    /\ Cardinality(LeafPositions(ast.circuit.sequence)) = 3
    /\ \E pos \in LeafPositions(ast.circuit.sequence) :
          LeafAt(ast.circuit.sequence, pos) = Ramp1
    /\ ~result.is_constant

(***************************************************************************)
(* Further properties of the Parser.                                       *)
(***************************************************************************)
\* C17: a Sample node without interpolation is lowered with Constant
\* interpolation when the current field is RabiPhase and with Linear
\* otherwise; a given interpolation is kept; the Sample waveform starts the
\* drive's waveform when nothing is accumulated and is appended otherwise.
C17_SampleDefaultInterpolation ==
    \A i \in 1..Len(drives) :
        LET run == PrimitiveRun(chain, drives[i].head + 1)
            at == drives[i].head + Len(run) + 2
        IN  (/\ KindAt(chain, at - 1) = "Fn"
             /\ KindAt(chain, at) = "Sample"
             /\ KindAt(chain, at + 1) \notin WaveformKinds) =>
                LET given == chain[at].interpolation
                    sample ==
                        [wf |-> "Sample",
                         waveform |-> PrimitiveIR(chain[at - 1]),
                         interpolation |->
                            IF given # "None" THEN given
                            ELSE IF drives[i].field = "rabi.phase"
                                 THEN "Constant" ELSE "Linear",
                         dt |-> chain[at].dt]
                IN  drives[i].wf =
                        IF run = <<>> THEN sample
                        ELSE [wf |-> "Append", waveforms |-> Append(run, sample)]

\* a Sample without interpolation under RabiPhase came out Constant
C17_Witness ==
    /\ Finished("parse")
    /\ outcome.status = "ok"
    /\ Len(drives) = 1
    /\ drives[1].field = "rabi.phase"
    /\ KindAt(chain, drives[1].head + 2) = "Sample"
    /\ chain[drives[1].head + 2].interpolation = "None"
    /\ drives[1].wf.interpolation = "Constant"

\* the sequence pass is running
InSequencePass == pc \in {"read_sequence", "sequence_loop"}

\* the spatial-modulation nodes at or after position from
SpatialPositions(from) ==
    { i \in from..Len(chain) : chain[i].kind \in SpatialKinds }

\* the first position after head that is not a waveform node
FoldEnd(head) ==
    IF \A i \in (head + 1)..Len(chain) : chain[i].kind \in WaveformKinds
    THEN Len(chain) + 1
    ELSE CHOOSE i \in (head + 1)..Len(chain) :
            /\ chain[i].kind \notin WaveformKinds
            /\ \A j \in (head + 1)..(i - 1) : chain[j].kind \in WaveformKinds

\* C18: the sequence pass ends on every chain; each iteration of its loop
\* moves the cursor forward by at least one node; each waveform fold stops
\* at the first node that is not a waveform node or at the end of the
\* chain; and a pass that returns has merged exactly one drive per
\* spatial-modulation node, in chain order, the folds of two drives sharing
\* no node.
C18_SequencePassTerminates ==
    /\ InSequencePass ~> ~InSequencePass
    /\ [][(pc = "sequence_loop" /\ scan <= Len(chain)) =>
            (scan' > scan /\ scan' <= Len(chain) + 1)]_vars
    /\ [][(pc = "sequence_loop" /\ pc' \notin {"sequence_loop", "idle"}) =>
            /\ { drives'[i].head : i \in 1..Len(drives') }
                  = SpatialPositions(stream)
            /\ Len(drives') = Cardinality(SpatialPositions(stream))]_vars
    /\ [](\A i \in 1..Len(drives) :
            /\ ReadWaveform(chain, drives[i].head + 1, drives[i].field).curr
                  = FoldEnd(drives[i].head)
            /\ \A j \in (i + 1)..Len(drives) :
                  /\ drives[i].head < drives[j].head
                  /\ FoldEnd(drives[i].head) <= drives[j].head)

\* a pass over a chain of two spatial nodes, a selector between the drives,
\* has returned after two merges
C18_Witness ==
    /\ Finished("parse")
    /\ outcome.status = "ok"
    /\ Cardinality(SpatialPositions(1)) = 2
    /\ Len(drives) = 2
    /\ FoldEnd(drives[1].head) < drives[2].head

\* C19: every drive the sequence pass merges maps its spatial key to a
\* waveform: none has the absent waveform (None), whatever follows the
\* spatial node.
C19_EveryDriveHasAWaveform ==
    \A i \in 1..Len(drives) : drives[i].wf # NoneWf

\* the calls that return a sequence
SequenceOps == {"parse_sequence", "parse_circuit", "parse"}

\* C20: parse_sequence, parse_circuit and parse agree on the sequence of a
\* chain: two of them called one after the other on the same chain both
\* return, with equal sequences, or both fail.
C20_EntryPointsAgreeOnSequence ==
    (/\ pc = "idle"
     /\ outcome.status # "none"
     /\ other.status # "none"
     /\ op \in SequenceOps
     /\ other.op \in SequenceOps) =>
        /\ outcome.status = other.outcome.status
        /\ outcome.status = "ok" => outcome.sequence = other.outcome.sequence

(***************************************************************************)
(* Properties of BraketTask.                                               *)
(***************************************************************************)
\* a submit call has finished
SubmitDone == tpc = "idle" /\ call.op = "submit"

\* what the finished submit call did when it was refused or went through
SubmitOutcome ==
    /\ (SubmitDone /\ ~call.force /\ call.pre_id # NoId) =>
          /\ call.raised = "ValueError"
          /\ call.submit_calls = 0
          /\ task_id = call.pre_id
          /\ task_result_ir = call.pre_ir
    /\ (SubmitDone /\ call.raised = "none") =>
          /\ call.submit_calls = 1
          /\ task_id # NoId
          /\ task_id # call.pre_id
          /\ task_result_ir = StatusOnly("Enqueued")

\* C21: from an unsubmitted task, over submit(force=False), fetch, pull,
\* result, status and cancel calls, backend.submit_task is invoked at most
\* once; submit(force=False) on a task with a task id raises ValueError, calls
\* no backend and leaves task_id and task_result_ir alone; a submit that
\* succeeds sets task_id and the local status Enqueued.
C21_SubmitTaskInvokedAtMostOnce ==
    /\ ~forced => submit_task_calls <= 1
    /\ SubmitOutcome

\* C21, with the invocations that raise set apart: without a forced submit
\* the backend creates at most one task, and once task_id is set submit_task
\* is not invoked again (an invocation that raised leaves task_id None and
\* the next submit invokes it again); the refused and the successful submit
\* are as stated.
C21_SubmitTaskSucceedsAtMostOnce ==
    /\ [](~forced => Len(remote) <= 1)
    /\ [][(~forced' /\ task_id # NoId) =>
            submit_task_calls' = submit_task_calls]_vars
    /\ [][(~forced' /\ submit_task_calls' # submit_task_calls) =>
            /\ submit_task_calls' = submit_task_calls + 1
            /\ Len(remote) = 0]_vars
    /\ []SubmitOutcome

\* submit_task raised, the next submit went through and a third was refused
C21_Witness ==
    /\ ~forced
    /\ submit_task_calls = 2
    /\ Len(remote) = 1
    /\ SubmitDone
    /\ call.raised = "ValueError"
    /\ call.pre_id # NoId
    /\ task_id = call.pre_id

\* a fetch call has finished
FetchDone == tpc = "idle" /\ call.op = "fetch"

\* C22: fetch does not wait and leaves a finished task alone: on local
\* status Completed, Partial, Failed, Unaccepted or Cancelled it calls no
\* backend and changes nothing; on Unsubmitted it raises ValueError;
\* otherwise it asks the backend for the status once, downloads the results
\* only when that status is Completed or Partial (the task has then ended,
\* so the download does not wait and the call returns) and else records
\* just the reported status.
C22_FetchNonBlockingAbsorbing ==
    /\ [](tpc = "fetch_results" => remote[task_id] \in RemoteTerminal)
    /\ (tpc = "fetch_results") ~> (tpc = "idle")
    /\ [](FetchDone =>
            LET before == call.pre_ir.task_status
            IN  /\ task_id = call.pre_id
                /\ call.submit_calls = 0
                /\ call.cancel_calls = 0
                /\ IF before = "Unsubmitted"
                   THEN /\ call.raised = "ValueError"
                        /\ call.status_calls = 0
                        /\ call.results_calls = 0
                        /\ task_result_ir = call.pre_ir
                   ELSE IF before \in {"Completed", "Partial", "Failed",
                                       "Unaccepted", "Cancelled"}
                   THEN /\ call.raised = "none"
                        /\ call.status_calls = 0
                        /\ call.results_calls = 0
                        /\ task_result_ir = call.pre_ir
                   ELSE /\ call.status_calls = 1
                        /\ call.results_calls =
                              IF call.reported \in {"Completed", "Partial"}
                              THEN 1 ELSE 0
                        /\ call.reported = "none" =>
                              /\ call.raised = "BackendError"
                              /\ task_result_ir = call.pre_ir
                        /\ call.reported \notin {"none", "Completed",
                                                 "Partial"} =>
                              /\ call.raised = "none"
                              /\ task_result_ir = StatusOnly(call.reported)
                        /\ call.reported \in {"Completed", "Partial"} =>
                              \/ /\ call.raised = "none"
                                 /\ task_result_ir =
                                       Downloaded(task_id, call.reported)
                              \/ /\ call.raised = "BackendError"
                                 /\ task_result_ir = call.pre_ir)

\* a fetch on a task whose downloaded results are Partial asked no backend
\* and changed nothing
C22_Witness ==
    /\ FetchDone
    /\ call.pre_ir = Downloaded(task_id, "Partial")
    /\ task_result_ir = call.pre_ir
    /\ call.status_calls = 0
    /\ call.raised = "none"

====
